---- MODULE Spec2Model ----
(***************************************************************************)
(* State-machine model of plot_helpers.py: the renderers plot_vec,         *)
(* plot_vecs, plot_line and plot_plane, the helper autoscale_arrows and    *)
(* the PlaneColorPicker singleton, acting on a matplotlib figure.          *)
(*                                                                         *)
(* The figure is modelled by what the helpers can observe of it: at most   *)
(* one rectilinear axes ("2d") and one 3D axes ("3d"), the current axes,   *)
(* and per axes its aspect, its child artists and the limits last handed   *)
(* to set_xlim/set_ylim/set_zlim.                                          *)
(***************************************************************************)
EXTENDS Integers, Sequences, FiniteSets, TLC

VARIABLES axes, cur, instance, last, gets, start0, planeCalls, lastPlane

vars == <<axes, cur, instance, last, gets, start0, planeCalls, lastPlane>>

(***************************************************************************)
(* Bounds of the model.                                                    *)
(***************************************************************************)
\* largest number of artists on the figure (both axes together)
MaxArtists == 2
\* largest number of artists on the figure where planes are plotted too
MaxPlots == 1
\* largest number of get_color calls in one run
MaxGets == 7
\* largest number of vectors handed to one plot_vecs call
MaxVecs == 7

(***************************************************************************)
(* Python numbers.  A number is n/d with a type tag; d = 0 encodes the     *)
(* IEEE specials numpy produces: 1/0 = inf, -1/0 = -inf, 0/0 = nan.        *)
(***************************************************************************)
RECURSIVE Gcd(_, _)
Gcd(a, b) == IF b = 0 THEN a ELSE Gcd(b, a % b)

Abs(x) == IF x < 0 THEN -x ELSE x

Sign(x) == IF x < 0 THEN -1 ELSE IF x > 0 THEN 1 ELSE 0

Mk(t, n, d) ==
    IF d = 0 THEN [t |-> t, n |-> Sign(n), d |-> 0]
    ELSE LET s == IF d < 0 THEN -1 ELSE 1
             g == Gcd(Abs(n), Abs(d))
         IN [t |-> t, n |-> (s * n) \div g, d |-> (s * d) \div g]

\* a Python int literal
I(k) == [t |-> "int", n |-> k, d |-> 1]

\* a Python float with an integral value
F(k) == [t |-> "float", n |-> k, d |-> 1]

\* float(x): the same value, as a float
float(x) == [t |-> "float", n |-> x.n, d |-> x.d]

ResType(a, b) == IF a.t = "int" /\ b.t = "int" THEN "int" ELSE "float"

IsFinite(a) == a.d # 0

\* a + b
NumAdd(a, b) ==
    IF a.d = 0 /\ b.d = 0
    THEN [t |-> "float", n |-> (IF a.n = b.n THEN a.n ELSE 0), d |-> 0]
    ELSE Mk(ResType(a, b), a.n * b.d + b.n * a.d, a.d * b.d)

NumNeg(a) == [t |-> a.t, n |-> -a.n, d |-> a.d]

\* a - b
NumSub(a, b) == NumAdd(a, NumNeg(b))

\* a * b
NumMul(a, b) == Mk(ResType(a, b), a.n * b.n, a.d * b.d)

\* numpy's true division of an array element by a float: a zero divisor
\* gives inf, -inf or nan (with a RuntimeWarning), never an exception
NumDiv(a, b) == Mk("float", a.n * b.d, a.d * b.n)

\* a < b and a == b by value, for finite numbers
NumLt(a, b) == a.n * b.d < b.n * a.d

NumEq(a, b) == IsFinite(a) /\ IsFinite(b) /\ a.n * b.d = b.n * a.d

\* min(xs) and max(xs) of a non-empty list: the first smallest (largest)
RECURSIVE MinFrom(_, _, _)
MinFrom(xs, i, m) ==
    IF i > Len(xs) THEN m
    ELSE MinFrom(xs, i + 1, IF NumLt(xs[i], m) THEN xs[i] ELSE m)

min(xs) == MinFrom(xs, 2, xs[1])

RECURSIVE MaxFrom(_, _, _)
MaxFrom(xs, i, m) ==
    IF i > Len(xs) THEN m
    ELSE MaxFrom(xs, i + 1, IF NumLt(m, xs[i]) THEN xs[i] ELSE m)

max(xs) == MaxFrom(xs, 2, xs[1])

(***************************************************************************)
(* The figure.                                                             *)
(***************************************************************************)
None == "None"

AxesIds == {"2d", "3d"}

DefaultLim == <<F(0), F(1)>>

NoAxes ==
    [exists |-> FALSE, aspect |-> "auto", children |-> <<>>,
     xlim |-> <<>>, ylim |-> <<>>, zlim |-> <<>>]

NewAxes(key) ==
    [exists |-> TRUE, aspect |-> "auto", children |-> <<>>,
     xlim |-> DefaultLim, ylim |-> DefaultLim,
     zlim |-> IF key = "3d" THEN DefaultLim ELSE <<>>]

\* plt.gca() / plt.gca(projection='3d'): the figure afterwards; the axes
\* returned is its current axes
gca(c, projection) ==
    LET key == IF projection = "3d" THEN "3d"
               ELSE IF c.cur = "none" THEN "2d" ELSE c.cur
    IN [axes |-> IF c.axes[key].exists THEN c.axes
                 ELSE [c.axes EXCEPT ![key] = NewAxes(key)],
        cur |-> key]

set_aspect(c, a) == [c EXCEPT !.axes[c.cur].aspect = a]

add_artist(c, art) ==
    [c EXCEPT !.axes[c.cur].children = Append(@, art)]

NArtists(c) == Len(c.axes["2d"].children) + Len(c.axes["3d"].children)

(***************************************************************************)
(* Arrow adapters.                                                         *)
(***************************************************************************)
Arrow3D(xs, ys, zs, color) ==
    [kind |-> "Arrow3D", xs |-> xs, ys |-> ys, zs |-> zs, color |-> color]

Arrow2D(xs, ys, color) ==
    [kind |-> "Arrow2D", xs |-> xs, ys |-> ys, zs |-> <<>>, color |-> color]

Line(xs, ys, zs, color) ==
    [kind |-> "Line", xs |-> xs, ys |-> ys, zs |-> zs, color |-> color]

Surface(xs, ys, zs, color) ==
    [kind |-> "Surface", xs |-> xs, ys |-> ys, zs |-> zs, color |-> color]

(***************************************************************************)
(* plot_vec                                                                *)
(***************************************************************************)
\* a slip: only the last index of a sequence accepted
HasIndex_last(seq, i) == i = Len(seq) - 1

\* seq[i] (0-based i) raises IndexError unless the sequence is long enough
HasIndex(seq, i) == i < Len(seq)

is3(vec) == Len(vec) = 3

\* a slip of the length test: shorter vectors taken as 2D
is2_loose(vec) == Len(vec) <= 2

is2(vec) == Len(vec) = 2

\* a slip: the arrow drawn from the origin to origin + vector
arrow_ends_offset(at_i, vec_i) == <<at_i, NumAdd(at_i, vec_i)>>

\* the coordinate pair [at[i], vec_i] handed to the arrow
arrow_ends(at_i, vec_i) == <<at_i, vec_i>>

Outcome(c, exc, printed) == [c |-> c, exc |-> exc, printed |-> printed]

plot_vec_run(c, vec, at, color) ==
    IF is3(vec) THEN
        LET c1 == set_aspect(gca(c, "3d"), "equal") IN
        IF ~HasIndex(vec, 2) \/ ~HasIndex(at, 2)
        THEN Outcome(c1, "IndexError", "")
        ELSE Outcome(add_artist(c1,
                 Arrow3D(arrow_ends(at[1], float(vec[1])),
                         arrow_ends(at[2], float(vec[2])),
                         arrow_ends(at[3], float(vec[3])), color)),
                 "none", "")
    ELSE IF is2(vec) THEN
        LET c1 == set_aspect(gca(c, ""), "equal") IN
        IF ~HasIndex(vec, 1) \/ ~HasIndex(at, 1)
        THEN Outcome(c1, "IndexError", "")
        ELSE Outcome(add_artist(c1,
                 Arrow2D(arrow_ends(at[1], float(vec[1])),
                         arrow_ends(at[2], float(vec[2])), color)),
                 "none", "")
    ELSE Outcome(c, "none", "Error: plot_vec supports only 2D and 3D vectors.")

(***************************************************************************)
(* plot_vecs                                                               *)
(***************************************************************************)
VCOLORS == <<"k", "b", "g", "r", "c", "m">>

\* a slip: the palette read one place on
vecs_color_shifted(i) == VCOLORS[((i + 1) % Len(VCOLORS)) + 1]

\* COLORS[i%len(COLORS)] for the 0-based position i
vecs_color(i) == VCOLORS[(i % Len(VCOLORS)) + 1]

DefaultAt == <<I(0), I(0), I(0)>>

RECURSIVE plot_vecs_run(_, _, _)
plot_vecs_run(o, args, i) ==
    IF i >= Len(args) \/ o.exc # "none" THEN o
    ELSE LET r == plot_vec_run(o.c, args[i + 1], DefaultAt, vecs_color(i))
         IN plot_vecs_run(
                Outcome(r.c, r.exc,
                        IF r.printed = "" THEN o.printed ELSE r.printed),
                args, i + 1)

(***************************************************************************)
(* plot_line                                                               *)
(***************************************************************************)
NSamples == 100

\* np.linspace(start, stop, num): its first and its last sample; the
\* samples between are evenly spaced, and every array below is affine in them
linspace(start, stop, num) == <<float(start), float(stop)>>

LineLo == I(-5)

LineHi == I(5)

\* a slip: the second component taken as the divisor
line_divisor_y(dir_vec) == float(dir_vec[2])

\* the divisor of the parameter s
line_divisor(dir_vec) == float(dir_vec[1])

\* s = (np.linspace(-5, 5, 100) - point_x)/dir_vec_x
line_s(point_x, div) ==
    LET t == linspace(LineLo, LineHi, NSamples)
    IN <<NumDiv(NumSub(t[1], point_x), div), NumDiv(NumSub(t[2], point_x), div)>>

\* point_c + dir_vec_c*s
line_coord(point_c, dir_c, s) ==
    <<NumAdd(point_c, NumMul(dir_c, s[1])), NumAdd(point_c, NumMul(dir_c, s[2]))>>

plot_line_3(c, dir_vec, point, color) ==
    LET c1 == set_aspect(gca(c, "3d"), "equal") IN
    IF ~HasIndex(point, 2)
    THEN Outcome(c1, "IndexError", "")
    ELSE LET s == line_s(float(point[1]), line_divisor(dir_vec))
         IN Outcome(add_artist(c1,
                Line(line_coord(float(point[1]), float(dir_vec[1]), s),
                     line_coord(float(point[2]), float(dir_vec[2]), s),
                     line_coord(float(point[3]), float(dir_vec[3]), s), color)),
                "none", "")

plot_line_2(c, dir_vec, point, color) ==
    LET c1 == set_aspect(gca(c, ""), "equal") IN
    IF ~HasIndex(point, 1)
    THEN Outcome(c1, "IndexError", "")
    ELSE LET s == line_s(float(point[1]), line_divisor(dir_vec))
         IN Outcome(add_artist(c1,
                Line(line_coord(float(point[1]), float(dir_vec[1]), s),
                     line_coord(float(point[2]), float(dir_vec[2]), s),
                     <<>>, color)),
                "none", "")

plot_line_run(c, dir_vec, point, color) ==
    IF Len(dir_vec) = 3 THEN plot_line_3(c, dir_vec, point, color)
    ELSE IF Len(dir_vec) = 2 THEN plot_line_2(c, dir_vec, point, color)
    ELSE Outcome(c, "none", "")

(***************************************************************************)
(* PlaneColorPicker                                                        *)
(***************************************************************************)
COLORS == <<"b", "g", "r", "c", "m", "k">>

NoInstance == [set |-> FALSE, color_index |-> 0]

\* a slip: the instance replaced at every construction
need_instance_always(inst) == TRUE

\* if not PlaneColorPicker.instance
need_instance(inst) == ~inst.set

\* PlaneColorPicker(start): the class attribute `instance` afterwards
picker_init(inst, start) ==
    IF need_instance(inst) THEN [set |-> TRUE, color_index |-> start] ELSE inst

\* a slip: the index left where it is
next_index_stuck(idx) == idx % Len(COLORS)

\* a slip: the index advanced by two
next_index_skip(idx) == (idx + 2) % Len(COLORS)

\* (cur + 1) % len(PlaneColorPicker.COLORS)
next_index(idx) == (idx + 1) % Len(COLORS)

\* PlaneColorPicker.COLORS[cur]: a Python list index, negative from the end
color_at(idx) ==
    IF idx >= 0 /\ idx < Len(COLORS) THEN COLORS[idx + 1]
    ELSE IF idx < 0 /\ idx >= -Len(COLORS) THEN COLORS[idx + Len(COLORS) + 1]
    ELSE "IndexError"

\* __get_color: the index is advanced before the palette is read
get_color_run(inst) ==
    [inst |-> [inst EXCEPT !.color_index = next_index(@)],
     got |-> color_at(inst.color_index)]

(***************************************************************************)
(* plot_plane                                                              *)
(***************************************************************************)
DefaultRange == <<I(-5), I(5)>>

\* whether the call draws its colour from the PlaneColorPicker
uses_picker(normal, color) == Len(normal) = 3 /\ color = None

\* (d - normal_x*X - normal_y*Y)/normal_z at one grid point
plane_z(d, nx, ny, nz, X, Y) ==
    NumDiv(NumSub(NumSub(d, NumMul(nx, X)), NumMul(ny, Y)), nz)

\* (d - normal_x*x)/normal_y at one sample
plane_y(d, nx, ny, x) == NumDiv(NumSub(d, NumMul(nx, x)), ny)

POutcome(c, inst, exc, got) == [c |-> c, inst |-> inst, exc |-> exc, got |-> got]

\* libok: whether plot_surface accepts data that is not finite (it depends
\* on the matplotlib release; finite data is always accepted)
plot_plane_3(c, inst, normal, d, color, xrange, yrange, libok) ==
    LET c1 == set_aspect(gca(c, "3d"), "equal")
        nx == float(normal[1])
        ny == float(normal[2])
        nz == float(normal[3])
        df == float(d)
        x == linspace(xrange[1], xrange[2], NSamples)
        y == linspace(yrange[1], yrange[2], NSamples)
        pick == uses_picker(normal, color)
        g == get_color_run(picker_init(inst, 0))
        inst1 == IF pick THEN g.inst ELSE inst
        col == IF pick THEN g.got ELSE color
        \* the four corners of the meshgrid
        X == <<x[1], x[2], x[1], x[2]>>
        Y == <<y[1], y[1], y[2], y[2]>>
        Z == [k \in 1..4 |-> plane_z(df, nx, ny, nz, X[k], Y[k])]
    IN IF col = "IndexError" THEN POutcome(c1, inst1, "IndexError", col)
       ELSE IF (\A k \in 1..4 : IsFinite(Z[k])) \/ libok
       THEN POutcome(add_artist(c1, Surface(X, Y, Z, col)), inst1, "none",
                     IF pick THEN col ELSE "-")
       ELSE POutcome(c1, inst1, "LibraryError", IF pick THEN col ELSE "-")

plot_plane_2(c, inst, normal, d, color, xrange) ==
    LET c1 == set_aspect(gca(c, ""), "equal")
        nx == float(normal[1])
        ny == float(normal[2])
        df == float(d)
        x == linspace(xrange[1], xrange[2], NSamples)
        y == <<plane_y(df, nx, ny, x[1]), plane_y(df, nx, ny, x[2])>>
    IN POutcome(add_artist(c1, Line(x, y, <<>>, color)), inst, "none", "-")

plot_plane_run(c, inst, normal, d, color, xrange, yrange, libok) ==
    IF Len(normal) = 3
    THEN plot_plane_3(c, inst, normal, d, color, xrange, yrange, libok)
    ELSE IF Len(normal) = 2
    THEN plot_plane_2(c, inst, normal, d, color, xrange)
    ELSE POutcome(c, inst, "none", "-")

(***************************************************************************)
(* autoscale_arrows                                                        *)
(***************************************************************************)
IsArrow3D(ch) == ch.kind = "Arrow3D"

IsArrow2D(ch) == ch.kind = "Arrow2D"

\* a slip: `or` for `and`
mixed_or(arrow2Ds, arrow3Ds) == arrow2Ds # <<>> \/ arrow3Ds # <<>>

\* if arrow2Ds and arrow3Ds
mixed(arrow2Ds, arrow3Ds) == arrow2Ds # <<>> /\ arrow3Ds # <<>>

\* the two ends of every arrow on one axis, in the order appended
RECURSIVE all_xs(_)
all_xs(arrows) ==
    IF arrows = <<>> THEN <<>>
    ELSE <<Head(arrows).xs[1], Head(arrows).xs[2]>> \o all_xs(Tail(arrows))

RECURSIVE all_ys(_)
all_ys(arrows) ==
    IF arrows = <<>> THEN <<>>
    ELSE <<Head(arrows).ys[1], Head(arrows).ys[2]>> \o all_ys(Tail(arrows))

RECURSIVE all_zs(_)
all_zs(arrows) ==
    IF arrows = <<>> THEN <<>>
    ELSE <<Head(arrows).zs[1], Head(arrows).zs[2]>> \o all_zs(Tail(arrows))

extent(xs) == NumSub(max(xs), min(xs))

\* a slip: the smallest extent taken as the side
cube_side_min(ex, ey, ez) == min(<<ex, ey, ez>>)

\* max(max_x-min_x, max_y-min_y, max_z-min_z)
cube_side(ex, ey, ez) == max(<<ex, ey, ez>>)

\* max(max_x-min_x, max_y-min_y)
square_side(ex, ey) == max(<<ex, ey>>)

\* the pair handed to set_xlim/set_ylim/set_zlim
limits(lo, side) == <<lo, NumAdd(lo, side)>>

AOutcome(c, exc, printed, ret) ==
    [c |-> c, exc |-> exc, printed |-> printed, ret |-> ret]

scale3(c, key, arrow3Ds) ==
    LET xs == all_xs(arrow3Ds)
        ys == all_ys(arrow3Ds)
        zs == all_zs(arrow3Ds)
        side == cube_side(extent(xs), extent(ys), extent(zs))
    IN [c EXCEPT !.axes[key].xlim = limits(min(xs), side),
                 !.axes[key].ylim = limits(min(ys), side),
                 !.axes[key].zlim = IF key = "3d" THEN limits(min(zs), side) ELSE @]

scale2(c, key, arrow2Ds) ==
    LET xs == all_xs(arrow2Ds)
        ys == all_ys(arrow2Ds)
        side == square_side(extent(xs), extent(ys))
    IN [c EXCEPT !.axes[key].xlim = limits(min(xs), side),
                 !.axes[key].ylim = limits(min(ys), side)]

autoscale_run(c, ax) ==
    LET c1 == IF ax = None THEN gca(c, "") ELSE c
        key == IF ax = None THEN c1.cur ELSE ax
        ch == c1.axes[key].children
        arrow3Ds == SelectSeq(ch, IsArrow3D)
        arrow2Ds == SelectSeq(ch, IsArrow2D)
    IN IF mixed(arrow2Ds, arrow3Ds)
       THEN AOutcome(c1, "none", "Mixing Arrow2D and Arrow3D not supported", "-1")
       ELSE IF arrow3Ds # <<>> /\ key # "3d"
       THEN AOutcome(scale3(c1, key, arrow3Ds), "AttributeError", "", None)
       ELSE IF arrow3Ds # <<>>
       THEN AOutcome(scale3(c1, key, arrow3Ds), "none", "", None)
       ELSE IF arrow2Ds # <<>>
       THEN AOutcome(scale2(c1, key, arrow2Ds), "none", "", None)
       ELSE AOutcome(c1, "none", "", None)

(***************************************************************************)
(* The calls, as actions.  `last` records the latest call: its arguments   *)
(* and what it printed, raised and returned.  `cap` bounds the artists on  *)
(* the figure; gets, start0, planeCalls and lastPlane record history.      *)
(***************************************************************************)
Fig == [axes |-> axes, cur |-> cur]

Idle ==
    [op |-> "none", v |-> <<>>, p |-> <<>>, vs |-> <<>>, d |-> I(0),
     color |-> None, ax |-> None, start |-> 0,
     exc |-> "none", printed |-> "", ret |-> None, got |-> "-"]

\* lastPlane: the latest plot_plane call made without a colour (the length
\* of its normal and the colour it drew), while nobody else has drawn a
\* colour from the picker since
NoPlane == [set |-> FALSE, n |-> 0, got |-> "-"]

Init ==
    /\ axes = [k \in AxesIds |-> NoAxes]
    /\ cur = "none"
    /\ instance = NoInstance
    /\ last = Idle
    /\ gets = 0
    /\ start0 = 0
    /\ planeCalls = 0
    /\ lastPlane = NoPlane

plot_vec(vec, at, color, cap) ==
    \E r \in {plot_vec_run(Fig, vec, at, color)} :
    /\ NArtists(r.c) <= cap
    /\ axes' = r.c.axes
    /\ cur' = r.c.cur
    /\ last' = [Idle EXCEPT !.op = "plot_vec", !.v = vec, !.p = at,
                            !.color = color, !.exc = r.exc, !.printed = r.printed]
    /\ UNCHANGED <<instance, gets, start0, planeCalls, lastPlane>>

plot_vecs(args, cap) ==
    \E r \in {plot_vecs_run(Outcome(Fig, "none", ""), args, 0)} :
    /\ NArtists(r.c) <= cap
    /\ axes' = r.c.axes
    /\ cur' = r.c.cur
    /\ last' = [Idle EXCEPT !.op = "plot_vecs", !.vs = args,
                            !.exc = r.exc, !.printed = r.printed]
    /\ UNCHANGED <<instance, gets, start0, planeCalls, lastPlane>>

plot_line(dir_vec, point, color, cap) ==
    \E r \in {plot_line_run(Fig, dir_vec, point, color)} :
    /\ NArtists(r.c) <= cap
    /\ axes' = r.c.axes
    /\ cur' = r.c.cur
    /\ last' = [Idle EXCEPT !.op = "plot_line", !.v = dir_vec, !.p = point,
                            !.color = color, !.exc = r.exc, !.printed = r.printed]
    /\ UNCHANGED <<instance, gets, start0, planeCalls, lastPlane>>

plot_plane(normal, d, color, xrange, yrange, libok, cap) ==
    \E r \in {plot_plane_run(Fig, instance, normal, d, color, xrange, yrange, libok)},
       pick \in {uses_picker(normal, color)} :
    /\ pick => gets < MaxGets
    /\ NArtists(r.c) <= cap
    /\ axes' = r.c.axes
    /\ cur' = r.c.cur
    /\ instance' = r.inst
    /\ last' = [Idle EXCEPT !.op = "plot_plane", !.v = normal, !.d = d,
                            !.color = color, !.exc = r.exc, !.got = r.got]
    /\ gets' = IF pick THEN gets + 1 ELSE gets
    /\ start0' = IF pick /\ ~instance.set THEN 0 ELSE start0
    /\ planeCalls' = IF Len(normal) = 3 /\ color = None
                     THEN planeCalls + 1 ELSE planeCalls
    /\ lastPlane' = IF color = None
                    THEN [set |-> TRUE, n |-> Len(normal), got |-> r.got]
                    ELSE lastPlane

autoscale_arrows(ax) ==
    /\ ax # None => axes[ax].exists
    /\ \E r \in {autoscale_run(Fig, ax)} :
        /\ axes' = r.c.axes
        /\ cur' = r.c.cur
        /\ last' = [Idle EXCEPT !.op = "autoscale_arrows", !.ax = ax,
                                !.exc = r.exc, !.printed = r.printed,
                                !.ret = r.ret]
    /\ UNCHANGED <<instance, gets, start0, planeCalls, lastPlane>>

\* PlaneColorPicker(start), called by a user of the module
PlaneColorPicker(start) ==
    /\ instance' = picker_init(instance, start)
    /\ start0' = IF instance.set THEN start0 ELSE start
    /\ last' = [Idle EXCEPT !.op = "PlaneColorPicker", !.start = start]
    /\ UNCHANGED <<axes, cur, gets, planeCalls, lastPlane>>

\* get_color() on any PlaneColorPicker object
get_color ==
    /\ instance.set
    /\ gets < MaxGets
    /\ \E g \in {get_color_run(instance)} :
        /\ instance' = g.inst
        /\ last' = [Idle EXCEPT !.op = "get_color",
                        !.exc = IF g.got = "IndexError" THEN "IndexError" ELSE "none",
                        !.ret = IF g.got = "IndexError" THEN None ELSE g.got,
                        !.got = g.got]
    /\ gets' = gets + 1
    /\ lastPlane' = NoPlane
    /\ UNCHANGED <<axes, cur, start0, planeCalls>>

(***************************************************************************)
(* Arguments the calls are tried with.                                     *)
(***************************************************************************)
V(ints) == [i \in 1..Len(ints) |-> I(ints[i])]

VecArgs ==
    {V(<<2, 4>>), V(<<2, 4, 6>>), V(<<-1, 0, 3>>), V(<<1>>), V(<<1, 2, 3, 4>>)}

AtArgs == {DefaultAt, V(<<3, 1>>), V(<<3, 1, -1>>)}

DirArgs == {V(<<1, 0>>), V(<<0, 1>>), V(<<1, 0, 0>>), V(<<1>>)}

PointArgs == {V(<<0, 0>>), V(<<0, 0, 0>>)}

NormalArgs == {V(<<0, 0, 1>>), V(<<1, 0, 0>>), V(<<1, 2>>), V(<<1>>)}

\* what plot_surface may answer for a normal: open only when the surface is
\* not finite, which is when the normal's z is zero
LibAnswers(normal) ==
    IF Len(normal) = 3 /\ normal[3].n = 0 THEN BOOLEAN ELSE {TRUE}

ColorArgs == {None, "r"}

AxArgs == {None, "2d", "3d"}

StartArgs == {-7, -6, -1, 0, 3, 5, 6}

\* the argument lists of plot_vecs: up to n vectors out of S
Tuples(S, n) == UNION {[1..k -> S] : k \in 0..n}

FewVecs == {V(<<2, 4>>), V(<<2, 4, 6>>), V(<<1>>)}

\* argument lists of k vectors that alternate between a and b
Alternating(k, a, b) == [i \in 1..k |-> IF i % 2 = 1 THEN a ELSE b]

\* the empty list and the longest lists
VecLists ==
    {Alternating(k, a, b) :
        k \in {0, MaxVecs - 1, MaxVecs}, a \in FewVecs, b \in FewVecs}

(***************************************************************************)
(* Spec: the five public functions, called in any order from a fresh       *)
(* process.                                                                *)
(***************************************************************************)
Next ==
    \/ \E vec \in FewVecs : plot_vec(vec, DefaultAt, "k", MaxPlots)
    \/ \E args \in Tuples(FewVecs, 1) : plot_vecs(args, MaxPlots)
    \/ plot_line(V(<<1, 0>>), V(<<0, 0, 0>>), None, MaxPlots)
    \/ \E n \in NormalArgs, col \in ColorArgs : \E ok \in LibAnswers(n) :
           plot_plane(n, I(5), col, DefaultRange, DefaultRange, ok, MaxPlots)
    \/ autoscale_arrows(None)

Spec == Init /\ [][Next]_vars

(***************************************************************************)
(* SpecDraw: vectors, lines and autoscaling, over more arguments.          *)
(***************************************************************************)
NextDraw ==
    \/ \E vec \in VecArgs, at \in AtArgs : plot_vec(vec, at, "k", MaxArtists)
    \/ \E dv \in DirArgs, pt \in PointArgs : plot_line(dv, pt, None, MaxArtists)
    \/ \E ax \in AxArgs : autoscale_arrows(ax)

SpecDraw == Init /\ [][NextDraw]_vars

(***************************************************************************)
(* SpecPicker: users of PlaneColorPicker beside plot_plane.                *)
(***************************************************************************)
NextPicker ==
    \/ \E start \in StartArgs : PlaneColorPicker(start)
    \/ get_color
    \/ \E n \in {V(<<0, 0, 1>>), V(<<1, 2>>)}, col \in ColorArgs :
           plot_plane(n, I(5), col, DefaultRange, DefaultRange, TRUE, MaxPlots)

SpecPicker == Init /\ [][NextPicker]_vars

(***************************************************************************)
(* SpecVecs: plot_vecs with long argument lists, in a process whose colour *)
(* cycler is unused or was constructed with any start index.               *)
(***************************************************************************)
InitVecs ==
    /\ axes = [k \in AxesIds |-> NoAxes]
    /\ cur = "none"
    /\ \E start \in 0..(Len(COLORS) - 1) :
           /\ instance \in {NoInstance, picker_init(NoInstance, start)}
           /\ start0 = IF instance.set THEN start ELSE 0
    /\ last = Idle
    /\ gets = 0
    /\ planeCalls = 0
    /\ lastPlane = NoPlane

NextVecs ==
    \/ \E args \in VecLists : plot_vecs(args, MaxVecs)
    \/ \E vec \in FewVecs : plot_vec(vec, DefaultAt, "k", MaxPlots)

SpecVecs == InitVecs /\ [][NextVecs]_vars

(***************************************************************************)
(* Properties.                                                             *)
(***************************************************************************)
\* the artists a step appends to axes k, and whether it keeps the old ones
Added(k) ==
    SubSeq(axes'[k].children, Len(axes[k].children) + 1, Len(axes'[k].children))

KeepsOld(k) ==
    /\ Len(axes'[k].children) >= Len(axes[k].children)
    /\ SubSeq(axes'[k].children, 1, Len(axes[k].children)) = axes[k].children

\* the axes a 2D call draws on: the current one, or a new rectilinear one
Target2 == IF cur = "none" THEN "2d" ELSE cur

TargetOf(vec) == IF Len(vec) = 3 THEN "3d" ELSE Target2

Other(k) == IF k = "3d" THEN "2d" ELSE "3d"

\* the step appends to axes k exactly one arrow for vec drawn from at, and
\* nothing else on the figure changes but the aspect of k
OneArrowAdded(vec, at, k) ==
    /\ KeepsOld(k)
    /\ Len(Added(k)) = 1
    /\ axes'[Other(k)] = axes[Other(k)]
    /\ axes'[k].aspect = "equal"
    /\ cur' = k
    /\ LET a == Added(k)[1] IN
       /\ a.kind = IF Len(vec) = 3 THEN "Arrow3D" ELSE "Arrow2D"
       /\ Len(at) >= Len(vec)
       /\ a.xs[1] = at[1] /\ NumEq(a.xs[2], vec[1]) /\ a.xs[2].t = "float"
       /\ a.ys[1] = at[2] /\ NumEq(a.ys[2], vec[2]) /\ a.ys[2].t = "float"
       /\ Len(vec) = 3 =>
              a.zs[1] = at[3] /\ NumEq(a.zs[2], vec[3]) /\ a.zs[2].t = "float"

\* C1 as stated: every plot_vec call with a vector of length 2 or 3, whatever
\* the origin, adds exactly one arrow from the origin to the raw vector
\* coordinates, keeps the other artists and sets the aspect to equal.
C1_Original ==
    [][(last'.op = "plot_vec" /\ Len(last'.v) \in {2, 3})
          => OneArrowAdded(last'.v, last'.p, TargetOf(last'.v))]_vars

\* C1 as amended: the same, for origins with at least as many coordinates as
\* the vector.
C1_Theorem ==
    [][(last'.op = "plot_vec" /\ Len(last'.v) \in {2, 3}
            /\ Len(last'.p) >= Len(last'.v))
          => OneArrowAdded(last'.v, last'.p, TargetOf(last'.v))]_vars

C1_Witness ==
    /\ last.op = "plot_vec"
    /\ last.v = V(<<2, 4, 6>>)
    /\ last.p = V(<<3, 1, -1>>)
    /\ Len(axes["3d"].children) = 2

\* the value-set of the arrow ends on one axis
EndsX(arrows) == {arrows[j].xs[i] : j \in 1..Len(arrows), i \in 1..2}

EndsY(arrows) == {arrows[j].ys[i] : j \in 1..Len(arrows), i \in 1..2}

EndsZ(arrows) == {arrows[j].zs[i] : j \in 1..Len(arrows), i \in 1..2}

Least(S) == CHOOSE x \in S : \A y \in S : ~NumLt(y, x)

Greatest(S) == CHOOSE x \in S : \A y \in S : ~NumLt(x, y)

Width(S) == NumSub(Greatest(S), Least(S))

\* lim is [lo, lo + side] and holds every value of S
FitsLimit(lim, S, side) ==
    /\ Len(lim) = 2
    /\ NumEq(lim[1], Least(S))
    /\ NumEq(lim[2], NumAdd(Least(S), side))
    /\ \A x \in S : ~NumLt(x, lim[1]) /\ ~NumLt(lim[2], x)

ScaledAxes == IF last.ax = None THEN cur ELSE last.ax

Arrows3(k) == SelectSeq(axes[k].children, IsArrow3D)

Arrows2(k) == SelectSeq(axes[k].children, IsArrow2D)

SameWidth(l1, l2) == NumEq(NumSub(l1[2], l1[1]), NumSub(l2[2], l2[1]))

\* C2: after autoscale_arrows on axes holding arrows of one kind only, every
\* scaled axis has the limits [min, min + side], side being the largest
\* per-axis extent of the arrow ends; the widths are equal, every end lies
\* within, and the single arrow (0,0,0) -> (2,4,6) gives [0,6] three times.
C2_Theorem ==
    last.op = "autoscale_arrows" =>
        LET k == ScaledAxes
            a3 == Arrows3(k)
            a2 == Arrows2(k)
            ax == axes[k]
        IN /\ (a3 # <<>> /\ a2 = <<>>) =>
                 LET side == Greatest({Width(EndsX(a3)), Width(EndsY(a3)),
                                       Width(EndsZ(a3))})
                 IN /\ FitsLimit(ax.xlim, EndsX(a3), side)
                    /\ FitsLimit(ax.ylim, EndsY(a3), side)
                    /\ FitsLimit(ax.zlim, EndsZ(a3), side)
                    /\ SameWidth(ax.xlim, ax.ylim) /\ SameWidth(ax.ylim, ax.zlim)
           /\ (a2 # <<>> /\ a3 = <<>>) =>
                 LET side == Greatest({Width(EndsX(a2)), Width(EndsY(a2))})
                 IN /\ FitsLimit(ax.xlim, EndsX(a2), side)
                    /\ FitsLimit(ax.ylim, EndsY(a2), side)
                    /\ SameWidth(ax.xlim, ax.ylim)
           /\ (Len(a3) = 1 /\ a2 = <<>>
                 /\ a3[1].xs = <<I(0), F(2)>> /\ a3[1].ys = <<I(0), F(4)>>
                 /\ a3[1].zs = <<I(0), F(6)>>) =>
                 \A lim \in {ax.xlim, ax.ylim, ax.zlim} :
                     NumEq(lim[1], I(0)) /\ NumEq(lim[2], I(6))

C2_Witness ==
    /\ last.op = "autoscale_arrows"
    /\ Len(Arrows3(ScaledAxes)) = 2
    /\ Arrows2(ScaledAxes) = <<>>
    /\ NumEq(axes[ScaledAxes].xlim[1], I(-1))

\* C3: autoscale_arrows on axes holding both an Arrow2D and an Arrow3D
\* changes no limit, prints an error and returns -1; otherwise it does not
\* return -1.
C3_Theorem ==
    [][last'.op = "autoscale_arrows" =>
          LET k == IF last'.ax = None THEN cur' ELSE last'.ax
              both == /\ SelectSeq(axes'[k].children, IsArrow3D) # <<>>
                      /\ SelectSeq(axes'[k].children, IsArrow2D) # <<>>
          IN /\ both => /\ axes' = axes
                        /\ last'.printed # ""
                        /\ last'.ret = "-1"
             /\ ~both => last'.ret # "-1"]_vars

C3_Witness ==
    /\ last.op = "autoscale_arrows"
    /\ last.ret = "-1"
    /\ Arrows3(ScaledAxes) # <<>>
    /\ Arrows2(ScaledAxes) # <<>>

\* blue, green, red, cyan, magenta, black
Palette == <<"b", "g", "r", "c", "m", "k">>

\* C4 as stated: the k-th get_color call of the process returns the palette
\* entry (start0 + k - 1) mod 6, start0 being the start index of the first
\* construction, whoever constructs PlaneColorPicker in between.
C4_Original ==
    last.got # "-" => last.got = Palette[((start0 + gets - 1) % 6) + 1]

\* C4 as amended: the same for -6 <= start0 <= 5; and for every start0 the
\* counter, once read, is (start0 + number of get_color calls) mod 6.
C4_Theorem ==
    /\ (last.got # "-" /\ start0 >= -6 /\ start0 <= 5)
          => last.got = Palette[((start0 + gets - 1) % 6) + 1]
    /\ (instance.set /\ gets > 0)
          => instance.color_index = (start0 + gets) % 6

C4_Witness ==
    /\ last.op = "get_color"
    /\ gets = 7
    /\ start0 = 3
    /\ last.ret = "c"

Successive(c1, c2) == \E i \in 1..6 : Palette[i] = c1 /\ Palette[(i % 6) + 1] = c2

C6_Theorem ==
    [][(last'.op = "plot_vec" /\ Len(last'.v) \notin {2, 3})
          => /\ axes' = axes
             /\ cur' = cur
             /\ last'.printed # ""
             /\ last'.exc = "none"]_vars

C6_Witness ==
    /\ last.op = "plot_vec"
    /\ Len(last.v) = 1
    /\ last.printed # ""
    /\ Len(axes["3d"].children) = 1

ZeroPoint(vec) == [i \in 1..Len(vec) |-> I(0)]

AxisLines == {V(<<1, 0>>), V(<<1, 0, 0>>)}

\* C7 as stated: plot_line with direction (1,0) through (0,0), or (1,0,0)
\* through (0,0,0), fails with a division by zero and draws nothing.
C7_Original ==
    [][(last'.op = "plot_line" /\ last'.v \in AxisLines
            /\ last'.p = ZeroPoint(last'.v))
          => /\ last'.exc = "ZeroDivisionError"
             /\ \A k \in AxesIds : axes'[k].children = axes[k].children]_vars

Both(pair, lo, hi) == NumEq(pair[1], lo) /\ NumEq(pair[2], hi)

\* C7 as amended: that call raises nothing and adds one line, the x axis
\* from x = -5 to x = 5.
C7_Theorem ==
    [][(last'.op = "plot_line" /\ last'.v \in AxisLines
            /\ last'.p = ZeroPoint(last'.v))
          => LET k == TargetOf(last'.v) IN
             /\ last'.exc = "none"
             /\ KeepsOld(k)
             /\ Len(Added(k)) = 1
             /\ axes'[Other(k)] = axes[Other(k)]
             /\ Added(k)[1].kind = "Line"
             /\ Both(Added(k)[1].xs, I(-5), I(5))
             /\ Both(Added(k)[1].ys, I(0), I(0))
             /\ Len(last'.v) = 3 => Both(Added(k)[1].zs, I(0), I(0))]_vars

C7_Witness ==
    /\ last.op = "plot_line"
    /\ last.v = V(<<1, 0>>)
    /\ last.p = V(<<0, 0>>)
    /\ last.exc = "none"
    /\ Len(axes["2d"].children) = 1

Rejected == last'.exc # "none" \/ last'.printed # ""

NothingAdded == \A k \in AxesIds : axes'[k].children = axes[k].children

\* C8 as stated: a plot_vec or plot_line call whose two arguments have the
\* lengths 2 and 3, either way round, is rejected and adds no artist.
C8_Original ==
    [][(last'.op \in {"plot_vec", "plot_line"}
            /\ {Len(last'.v), Len(last'.p)} = {2, 3})
          => Rejected /\ NothingAdded]_vars

\* C8 as amended: with a 3-element vector (direction) and a 2-element origin
\* (point) the call raises IndexError and adds no artist; with a 2-element
\* vector (direction) and a 3-element origin (point) it raises nothing and
\* adds one artist built from the first two coordinates of the origin.
C8_Theorem ==
    [][last'.op \in {"plot_vec", "plot_line"} =>
          /\ (Len(last'.v) = 3 /\ Len(last'.p) = 2)
                => last'.exc = "IndexError" /\ NothingAdded
          /\ (Len(last'.v) = 2 /\ Len(last'.p) = 3)
                => /\ last'.exc = "none"
                   /\ last'.printed = ""
                   /\ KeepsOld(Target2)
                   /\ Len(Added(Target2)) = 1
                   /\ Added(Target2)[1].zs = <<>>
                   /\ last'.op = "plot_vec" =>
                          /\ Added(Target2)[1].xs[1] = last'.p[1]
                          /\ Added(Target2)[1].ys[1] = last'.p[2]]_vars

C8_Witness ==
    /\ last.op = "plot_line"
    /\ Len(last.v) = 3
    /\ Len(last.p) = 2
    /\ last.exc = "IndexError"
    /\ axes["3d"].exists

\* black, blue, green, red, cyan, magenta
VecPalette == <<"k", "b", "g", "r", "c", "m">>

\* the 1-based places of the vectors of length n in an argument list
RECURSIVE Places(_, _, _)
Places(args, n, i) ==
    IF i > Len(args) THEN <<>>
    ELSE (IF Len(args[i]) = n THEN <<i>> ELSE <<>>) \o Places(args, n, i + 1)

\* the arrows are those of the vectors at `places`, in that order, each with
\* the colour of its place
ArrowsFor(arrows, args, places) ==
    /\ Len(arrows) = Len(places)
    /\ \A j \in 1..Len(places) :
          /\ arrows[j].color = VecPalette[((places[j] - 1) % 6) + 1]
          /\ NumEq(arrows[j].xs[2], args[places[j]][1])
          /\ NumEq(arrows[j].ys[2], args[places[j]][2])

C10_Theorem ==
    IF instance.set THEN instance.color_index = planeCalls % 6
    ELSE planeCalls = 0

C10_Witness ==
    /\ planeCalls = 7
    /\ last.op = "plot_plane"
    /\ last.exc = "LibraryError"
    /\ last.got = "b"
    /\ instance.color_index = 1

====
